---- MODULE Spec2Model ----
(***************************************************************************)
(* Model of free_memory_node.py (ComfyUI-FreeMemory).                      *)
(*                                                                         *)
(* One host thread invokes a passthrough node; the node runs               *)
(* FreeMemoryBase.free_memory (free_gpu_vram, then free_system_ram) and    *)
(* returns its payload.  Every call into a collaborator (torch.cuda,       *)
(* comfy.model_management, psutil, subprocess, ctypes) is one step whose   *)
(* outcome is chosen by the environment: a value, or an exception.         *)
(* gc.collect, os.geteuid and torch.cuda.is_available are runtime calls    *)
(* that do not raise.  An exception raised outside a try block propagates  *)
(* to the host (pc = "raised").                                            *)
(*                                                                         *)
(* log     the collaborator calls made in this invocation, in order, each  *)
(*         with the source line of the call                                *)
(* warned  the source lines of the print statements executed by exception  *)
(*         handlers and warning branches in this invocation                *)
(* The local variables of free_gpu_vram and free_system_ram are Unbound    *)
(* outside the function that owns them.                                    *)
(***************************************************************************)
EXTENDS Integers, Sequences, FiniteSets

VARIABLES pc, cuda, osname, euid, node, payload, aggressive, output,
          log, warned, raised,
          initial_allocated_gb, initial_reserved_gb,
          final_allocated_gb, final_reserved_gb, freed_allocated_gb,
          initial_percent, initial_available_gb,
          final_percent, final_available_gb,
          memory_freed_percent_points, available_change_gb

env    == <<cuda, osname, euid>>
args   == <<node, payload, aggressive>>
gpuloc == <<initial_allocated_gb, initial_reserved_gb,
            final_allocated_gb, final_reserved_gb, freed_allocated_gb>>
ramloc == <<initial_percent, initial_available_gb,
            final_percent, final_available_gb,
            memory_freed_percent_points, available_change_gb>>
vars   == <<pc, env, args, output, log, warned, raised, gpuloc, ramloc>>

(* ---- bounds ---- *)
MaxBytes    == 1

(* ---- program constants ---- *)
GiB         == 1073741824
SyncTimeout == 30
TeeTimeout  == 10

Nodes    == {"FreeMemoryImage", "FreeMemoryLatent", "FreeMemoryModel",
             "FreeMemoryCLIP", "FreeMemoryString"}
Payloads == {"p1", "p2"}
OsNames  == {"posix", "nt", "java"}
Bytes    == 0..MaxBytes

(* a local variable that is not bound; every number is a rational num/den *)
Unbound  == [num |-> 0, den |-> 0]
NoOutput == << >>

(* a psutil percentage, a number *)
Pct(p) == [num |-> p, den |-> 1]

(* b / (1024**3): a rational with denominator 2^30 *)
bytes_to_gb(b) == [num |-> b, den |-> GiB]

(* the literal 0 assigned at line 43, as a number of the same kind *)
ZeroGb == [num |-> 0, den |-> 1]

(* x - y on rationals *)
GbSub(x, y) ==
    IF x.den = y.den
    THEN [num |-> x.num - y.num, den |-> x.den]
    ELSE IF x.den = 1
         THEN [num |-> x.num * y.den - y.num, den |-> y.den]
         ELSE [num |-> x.num - y.num * x.den, den |-> x.den]

(* equality of rationals whose denominators are 1 or GiB *)
GbEq(x, y) == GbSub(x, y).num = 0

Ev(c, l) == [call |-> c, line |-> l]

Init ==
    /\ pc = "idle"
    /\ cuda \in BOOLEAN
    /\ osname \in OsNames
    /\ euid \in {0, 1000}
    /\ node \in Nodes
    /\ payload \in Payloads
    /\ aggressive \in BOOLEAN
    /\ output = NoOutput
    /\ log = << >>
    /\ warned = {}
    /\ raised = 0
    /\ initial_allocated_gb = Unbound
    /\ initial_reserved_gb = Unbound
    /\ final_allocated_gb = Unbound
    /\ final_reserved_gb = Unbound
    /\ freed_allocated_gb = Unbound
    /\ initial_percent = Unbound
    /\ initial_available_gb = Unbound
    /\ final_percent = Unbound
    /\ final_available_gb = Unbound
    /\ memory_freed_percent_points = Unbound
    /\ available_change_gb = Unbound

(* The host calls FUNCTION = "free_memory_passthrough" of a node with a
   payload and the aggressive flag; free_memory calls free_gpu_vram. *)
Invoke ==
    /\ pc = "idle"
    /\ node' \in Nodes
    /\ payload' \in Payloads
    /\ aggressive' \in BOOLEAN
    /\ output' = NoOutput
    /\ log' = << >>
    /\ warned' = {}
    /\ raised' = 0
    /\ pc' = IF node' = "FreeMemoryString" THEN "string_print" ELSE "gpu_check"
    /\ UNCHANGED <<env, gpuloc, ramloc>>

(* FreeMemoryString.free_memory_passthrough, line 209: the trigger string is
   only read for the log line *)
StringPrint ==
    /\ pc = "string_print"
    /\ log' = Append(log, Ev("print", 209))
    /\ pc' = "gpu_check"
    /\ UNCHANGED <<env, args, output, warned, raised, gpuloc, ramloc>>

(* free_gpu_vram, lines 32-34 *)
GpuCheckAvailable ==
    /\ pc = "gpu_check"
    /\ log' = Append(log, Ev("is_available", 32))
    /\ pc' = IF cuda THEN "gpu_initial" ELSE "ram_initial"
    /\ UNCHANGED <<env, args, output, warned, raised, gpuloc, ramloc>>

(* free_gpu_vram, lines 37-43: both reads succeed *)
GpuInitialStatsOk ==
    /\ pc = "gpu_initial"
    /\ \E a \in Bytes, r \in Bytes :
          /\ initial_allocated_gb' = bytes_to_gb(a)
          /\ initial_reserved_gb' = bytes_to_gb(r)
    /\ log' = log \o <<Ev("memory_allocated", 38), Ev("memory_reserved", 39)>>
    /\ pc' = "gpu_gc"
    /\ UNCHANGED <<env, args, output, warned, raised, ramloc,
                   final_allocated_gb, final_reserved_gb, freed_allocated_gb>>

(* free_gpu_vram, lines 37-43: memory_allocated (line 38) or memory_reserved
   (line 39) raises; the handler prints and assumes 0 *)
GpuInitialStatsRaise ==
    /\ pc = "gpu_initial"
    /\ \/ log' = Append(log, Ev("memory_allocated", 38))
       \/ log' = log \o <<Ev("memory_allocated", 38), Ev("memory_reserved", 39)>>
    /\ warned' = warned \cup {42}
    /\ initial_allocated_gb' = ZeroGb
    /\ pc' = "gpu_gc"
    /\ UNCHANGED <<env, args, output, raised, ramloc, initial_reserved_gb,
                   final_allocated_gb, final_reserved_gb, freed_allocated_gb>>

(* free_gpu_vram, line 46 *)
GpuGcCollect ==
    /\ pc = "gpu_gc"
    /\ log' = Append(log, Ev("gc.collect", 46))
    /\ pc' = "gpu_empty"
    /\ UNCHANGED <<env, args, output, warned, raised, gpuloc, ramloc>>

(* free_gpu_vram, line 47: outside any try block *)
GpuEmptyCache ==
    /\ pc = "gpu_empty"
    /\ log' = Append(log, Ev("empty_cache", 47))
    /\ \/ /\ pc' = "gpu_aggressive"
          /\ UNCHANGED <<raised, gpuloc>>
       \/ /\ pc' = "raised"
          /\ raised' = 47
          /\ initial_allocated_gb' = Unbound
          /\ initial_reserved_gb' = Unbound
          /\ UNCHANGED <<final_allocated_gb, final_reserved_gb, freed_allocated_gb>>
    /\ UNCHANGED <<env, args, output, warned, ramloc>>

(* free_gpu_vram, lines 51-61: the branch on the flag *)
GpuAggressiveBranch ==
    /\ pc = "gpu_aggressive"
    /\ pc' = IF aggressive THEN "gpu_unload" ELSE "gpu_final"
    /\ UNCHANGED <<env, args, output, log, warned, raised, gpuloc, ramloc>>

(* free_gpu_vram, lines 53-59: mm.unload_all_models() inside the try *)
GpuUnload ==
    /\ pc = "gpu_unload"
    /\ log' = Append(log, Ev("unload_all_models", 54))
    /\ \/ /\ pc' = "gpu_gc2"
          /\ UNCHANGED warned
       \/ /\ pc' = "gpu_final"
          /\ warned' = warned \cup {59}
    /\ UNCHANGED <<env, args, output, raised, gpuloc, ramloc>>

(* free_gpu_vram, line 55 *)
GpuGcCollect2 ==
    /\ pc = "gpu_gc2"
    /\ log' = Append(log, Ev("gc.collect", 55))
    /\ pc' = "gpu_empty2"
    /\ UNCHANGED <<env, args, output, warned, raised, gpuloc, ramloc>>

(* free_gpu_vram, lines 56-59: inside the try *)
GpuEmptyCache2 ==
    /\ pc = "gpu_empty2"
    /\ log' = Append(log, Ev("empty_cache", 56))
    /\ \/ UNCHANGED warned
       \/ warned' = warned \cup {59}
    /\ pc' = "gpu_final"
    /\ UNCHANGED <<env, args, output, raised, gpuloc, ramloc>>

(* free_gpu_vram, lines 65-70: both reads succeed, the difference is printed *)
GpuFinalStatsOk ==
    /\ pc = "gpu_final"
    /\ \E a \in Bytes, r \in Bytes :
          /\ final_allocated_gb' = bytes_to_gb(a)
          /\ final_reserved_gb' = bytes_to_gb(r)
          /\ freed_allocated_gb' = GbSub(initial_allocated_gb, bytes_to_gb(a))
    /\ log' = log \o <<Ev("memory_allocated", 66), Ev("memory_reserved", 67)>>
    /\ pc' = "gpu_return"
    /\ UNCHANGED <<env, args, output, warned, raised, ramloc,
                   initial_allocated_gb, initial_reserved_gb>>

(* free_gpu_vram, lines 65-72: memory_allocated (line 66) raises, or it
   returns and memory_reserved (line 67) raises *)
GpuFinalStatsRaise ==
    /\ pc = "gpu_final"
    /\ \/ /\ log' = Append(log, Ev("memory_allocated", 66))
          /\ UNCHANGED final_allocated_gb
       \/ /\ log' = log \o <<Ev("memory_allocated", 66), Ev("memory_reserved", 67)>>
          /\ \E a \in Bytes : final_allocated_gb' = bytes_to_gb(a)
    /\ warned' = warned \cup {72}
    /\ pc' = "gpu_return"
    /\ UNCHANGED <<env, args, output, raised, ramloc, initial_allocated_gb,
                   initial_reserved_gb, final_reserved_gb, freed_allocated_gb>>

(* free_gpu_vram returns to free_memory (line 24 to line 25) *)
GpuReturn ==
    /\ pc = "gpu_return"
    /\ initial_allocated_gb' = Unbound
    /\ initial_reserved_gb' = Unbound
    /\ final_allocated_gb' = Unbound
    /\ final_reserved_gb' = Unbound
    /\ freed_allocated_gb' = Unbound
    /\ pc' = "ram_initial"
    /\ UNCHANGED <<env, args, output, log, warned, raised, ramloc>>

(* psutil.virtual_memory() returns a reading or raises; the machine has
   MaxBytes bytes of RAM and psutil derives percent from total and available *)
MemoryInfos ==
    {[percent |-> ((MaxBytes - a) * 100) \div MaxBytes, available |-> a] :
         a \in Bytes}

(* mutant: the collection of line 85 is done before the snapshot of line 79 *)
RamInitialStatsAfterGc ==
    /\ pc = "ram_initial"
    /\ log' = log \o <<Ev("gc.collect", 85), Ev("virtual_memory", 79)>>
    /\ \E m \in MemoryInfos :
          /\ initial_percent' = Pct(m.percent)
          /\ initial_available_gb' = bytes_to_gb(m.available)
    /\ pc' = "ram_aggressive"
    /\ UNCHANGED <<env, args, output, warned, raised, gpuloc, final_percent,
                   final_available_gb, memory_freed_percent_points,
                   available_change_gb>>

(* free_system_ram, lines 79-82: outside any try block *)
RamInitialStats ==
    /\ pc = "ram_initial"
    /\ log' = Append(log, Ev("virtual_memory", 79))
    /\ \/ /\ \E m \in MemoryInfos :
                /\ initial_percent' = Pct(m.percent)
                /\ initial_available_gb' = bytes_to_gb(m.available)
          /\ pc' = "ram_gc"
          /\ UNCHANGED raised
       \/ /\ pc' = "raised"
          /\ raised' = 79
          /\ UNCHANGED <<initial_percent, initial_available_gb>>
    /\ UNCHANGED <<env, args, output, warned, gpuloc, final_percent,
                   final_available_gb, memory_freed_percent_points,
                   available_change_gb>>

(* free_system_ram, line 85 *)
RamGcCollect ==
    /\ pc = "ram_gc"
    /\ log' = Append(log, Ev("gc.collect", 85))
    /\ pc' = "ram_aggressive"
    /\ UNCHANGED <<env, args, output, warned, raised, gpuloc, ramloc>>

(* mutant: the system cache clearing is not guarded by the flag *)
RamAggressiveBranchUnguarded ==
    /\ pc = "ram_aggressive"
    /\ IF osname = "posix"
       THEN pc' = "ram_geteuid" /\ UNCHANGED warned
       ELSE IF osname = "nt"
            THEN pc' = "ram_trim" /\ UNCHANGED warned
            ELSE pc' = "ram_final" /\ warned' = warned \cup {145}
    /\ UNCHANGED <<env, args, output, log, raised, gpuloc, ramloc>>

(* free_system_ram, lines 89-91, 122, 144-147: the branch on the flag and on
   os.name; an OS that is neither posix nor nt only prints (line 145) *)
RamAggressiveBranch ==
    /\ pc = "ram_aggressive"
    /\ IF ~aggressive
       THEN pc' = "ram_final" /\ UNCHANGED warned
       ELSE IF osname = "posix"
            THEN pc' = "ram_geteuid" /\ UNCHANGED warned
            ELSE IF osname = "nt"
                 THEN pc' = "ram_trim" /\ UNCHANGED warned
                 ELSE pc' = "ram_final" /\ warned' = warned \cup {145}
    /\ UNCHANGED <<env, args, output, log, raised, gpuloc, ramloc>>

(* free_system_ram, lines 92-93 *)
RamPrivilegeCheck ==
    /\ pc = "ram_geteuid"
    /\ log' = Append(log, Ev("geteuid", 92))
    /\ warned' = IF euid # 0 THEN warned \cup {93} ELSE warned
    /\ pc' = "ram_sync"
    /\ UNCHANGED <<env, args, output, raised, gpuloc, ramloc>>

(* subprocess.run(cmd, check=True, timeout=t): the exception it raises, or
   "ok", from how the spawn went, how long the command ran and its exit code *)
SpawnResults == {"spawned", "FileNotFoundError", "Exception"}
Durations    == {1, TeeTimeout + 1, SyncTimeout + 1}
ExitCodes    == {0, 1}
SubprocessRun(spawn, duration, code, timeout) ==
    IF spawn # "spawned" THEN spawn
    ELSE IF duration > timeout THEN "TimeoutExpired"
    ELSE IF code # 0 THEN "CalledProcessError"
    ELSE "ok"

(* the except clause (lines 100-103) that handles an exception of the sync
   step, and the one (lines 117-120) for the drop-caches step *)
SyncHandler(exc) ==
    IF exc = "FileNotFoundError" THEN 100
    ELSE IF exc = "CalledProcessError" THEN 101
    ELSE IF exc = "TimeoutExpired" THEN 102
    ELSE 103
TeeHandler(exc) ==
    IF exc = "FileNotFoundError" THEN 117
    ELSE IF exc = "CalledProcessError" THEN 118
    ELSE IF exc = "TimeoutExpired" THEN 119
    ELSE 120

(* free_system_ram, lines 96-103 *)
RamSync ==
    /\ pc = "ram_sync"
    /\ log' = Append(log, Ev("sync", 98))
    /\ \E s \in SpawnResults, d \in Durations, c \in ExitCodes :
          LET r == SubprocessRun(s, d, c, SyncTimeout)
          IN  warned' = IF r = "ok" THEN warned ELSE warned \cup {SyncHandler(r)}
    /\ pc' = "ram_tee"
    /\ UNCHANGED <<env, args, output, raised, gpuloc, ramloc>>

(* free_system_ram, lines 106-120; line 116 prints a note when tee wrote to
   stderr although it succeeded *)
RamDropCaches ==
    /\ pc = "ram_tee"
    /\ log' = Append(log, Ev("tee", 110))
    /\ \E s \in SpawnResults, d \in Durations, c \in ExitCodes,
          stderr \in BOOLEAN :
          LET r == SubprocessRun(s, d, c, TeeTimeout)
          IN  warned' = IF r = "ok"
                        THEN IF stderr THEN warned \cup {116} ELSE warned
                        ELSE warned \cup {TeeHandler(r)}
    /\ pc' = "ram_final"
    /\ UNCHANGED <<env, args, output, raised, gpuloc, ramloc>>

(* free_system_ram, lines 123-143: GetCurrentProcess, then EmptyWorkingSet *)
RamEmptyWorkingSet ==
    /\ pc = "ram_trim"
    /\ \/ (* kernel32.GetCurrentProcess is missing: AttributeError *)
          /\ log' = Append(log, Ev("GetCurrentProcess", 126))
          /\ warned' = warned \cup {139}
       \/ (* no handle: WinError, an OSError *)
          /\ log' = Append(log, Ev("GetCurrentProcess", 126))
          /\ warned' = warned \cup {141}
       \/ /\ log' = log \o <<Ev("GetCurrentProcess", 126),
                             Ev("EmptyWorkingSet", 131)>>
          /\ \/ UNCHANGED warned                (* returned true *)
             \/ warned' = warned \cup {136}     (* returned false *)
             \/ warned' = warned \cup {139}     (* AttributeError *)
             \/ warned' = warned \cup {141}     (* OSError *)
             \/ warned' = warned \cup {143}     (* any other exception *)
    /\ pc' = "ram_final"
    /\ UNCHANGED <<env, args, output, raised, gpuloc, ramloc>>

(* free_system_ram, lines 151-159: outside any try block *)
RamFinalStats ==
    /\ pc = "ram_final"
    /\ log' = Append(log, Ev("virtual_memory", 151))
    /\ \/ /\ \E m \in MemoryInfos :
                /\ final_percent' = Pct(m.percent)
                /\ final_available_gb' = bytes_to_gb(m.available)
                /\ memory_freed_percent_points' =
                       GbSub(initial_percent, Pct(m.percent))
                /\ available_change_gb' =
                       GbSub(bytes_to_gb(m.available), initial_available_gb)
          /\ pc' = "ram_return"
          /\ UNCHANGED <<raised, initial_percent, initial_available_gb>>
       \/ /\ pc' = "raised"
          /\ raised' = 151
          /\ initial_percent' = Unbound
          /\ initial_available_gb' = Unbound
          /\ UNCHANGED <<final_percent, final_available_gb,
                         memory_freed_percent_points, available_change_gb>>
    /\ UNCHANGED <<env, args, output, warned, gpuloc>>

(* free_system_ram returns to free_memory (line 25), free_memory returns to
   free_memory_passthrough (lines 26-27) *)
RamReturn ==
    /\ pc = "ram_return"
    /\ initial_percent' = Unbound
    /\ initial_available_gb' = Unbound
    /\ final_percent' = Unbound
    /\ final_available_gb' = Unbound
    /\ memory_freed_percent_points' = Unbound
    /\ available_change_gb' = Unbound
    /\ pc' = "passthrough_return"
    /\ UNCHANGED <<env, args, output, log, warned, raised, gpuloc>>

(* mutant: the passthrough falls off its end without returning (x,) *)
PassthroughReturnNothing ==
    /\ pc = "passthrough_return"
    /\ output' = NoOutput
    /\ pc' = "returned"
    /\ UNCHANGED <<env, args, log, warned, raised, gpuloc, ramloc>>

(* free_memory_passthrough, lines 169, 177, 185, 193, 211: return (x,) *)
PassthroughReturn ==
    /\ pc = "passthrough_return"
    /\ output' = <<payload>>
    /\ pc' = "returned"
    /\ UNCHANGED <<env, args, log, warned, raised, gpuloc, ramloc>>

(* the host takes the result, or the exception, and is ready for the next
   node execution *)
HostContinue ==
    /\ pc \in {"returned", "raised"}
    /\ pc' = "idle"
    /\ UNCHANGED <<env, args, output, log, warned, raised, gpuloc, ramloc>>

Next ==
    \/ Invoke
    \/ StringPrint
    \/ GpuCheckAvailable
    \/ GpuInitialStatsOk
    \/ GpuInitialStatsRaise
    \/ GpuGcCollect
    \/ GpuEmptyCache
    \/ GpuAggressiveBranch
    \/ GpuUnload
    \/ GpuGcCollect2
    \/ GpuEmptyCache2
    \/ GpuFinalStatsOk
    \/ GpuFinalStatsRaise
    \/ GpuReturn
    \/ RamInitialStats
    \/ RamGcCollect
    \/ RamAggressiveBranch
    \/ RamPrivilegeCheck
    \/ RamSync
    \/ RamDropCaches
    \/ RamEmptyWorkingSet
    \/ RamFinalStats
    \/ RamReturn
    \/ PassthroughReturn
    \/ HostContinue

Spec == Init /\ [][Next]_vars

TypeOK ==
    /\ pc \in {"idle", "string_print", "gpu_check", "gpu_initial", "gpu_gc",
               "gpu_empty", "gpu_aggressive", "gpu_unload", "gpu_gc2",
               "gpu_empty2", "gpu_final", "gpu_return", "ram_initial",
               "ram_gc", "ram_aggressive", "ram_geteuid", "ram_sync",
               "ram_tee", "ram_trim", "ram_final", "ram_return",
               "passthrough_return", "returned", "raised"}
    /\ output \in {NoOutput} \cup {<<p>> : p \in Payloads}
    /\ raised \in {0, 47, 79, 151}

(* ---- the calls of one invocation ---- *)
LinesOf(l)   == {i \in DOMAIN log : log[i].line = l}
CallsOf(c)   == {i \in DOMAIN log : log[i].call = c}
Ran(l)       == LinesOf(l) # {}
Called(c)    == CallsOf(c) # {}
Terminal     == pc \in {"returned", "raised"}

AcceleratorCalls == {"memory_allocated", "memory_reserved", "empty_cache"}
OsCacheCalls     == {"sync", "tee", "GetCurrentProcess", "EmptyWorkingSet"}
ReclaimCalls     == {"gc.collect", "empty_cache", "unload_all_models",
                     "sync", "tee", "EmptyWorkingSet"}
BaselineLines    == {38, 39, 79}
FinalLines       == {66, 67, 151}
SyncHandlers     == {100, 101, 102, 103}
TeeHandlers      == {117, 118, 119, 120}
UnloadRaised     == Ran(54) /\ ~Ran(55) /\ 59 \in warned

(* C1: when a passthrough node returns, its output is the one-element tuple
   holding exactly the payload it was invoked with, for every node and both
   values of the flag, whatever the steps before the return printed. *)
C1_PassthroughIdentity ==
    /\ pc = "returned" => output = <<payload>> /\ Len(output) = 1
    /\ pc # "returned" => output \in {NoOutput, <<payload>>}

C1_Witness ==
    /\ pc = "returned"
    /\ node = "FreeMemoryString"
    /\ aggressive
    /\ warned \cap {59, 72} # {}
    /\ output = <<"p2">>

(* C2: free_memory never raises: no exception of a sub-step reaches the
   host. *)
C2_NeverRaises == pc # "raised"

(* C3: with aggressive = false no unload_all_models call is made and no OS
   cache-clearing call (sync, drop-caches write, working-set trim) is made,
   on any OS, with or without an accelerator. *)
C3_NonAggressiveIsGentle ==
    ~aggressive =>
        /\ ~Called("unload_all_models")
        /\ \A c \in OsCacheCalls : ~Called(c)

C3_Witness ==
    /\ ~aggressive
    /\ pc = "returned"
    /\ cuda
    /\ osname = "posix"
    /\ Ran(47) /\ Ran(85)

(* C4: with aggressive = true, when unload_all_models raises, the routine
   still reads the final accelerator statistics, runs the whole system-RAM
   phase (OS cache clearing and the final snapshot included) and returns
   normally. *)
C4_UnloadFailureContained ==
    (aggressive /\ UnloadRaised /\ Terminal) =>
        /\ pc = "returned"
        /\ Ran(66)
        /\ Ran(79) /\ Ran(85) /\ Ran(151)
        /\ osname = "posix" => Ran(98) /\ Ran(110)
        /\ osname = "nt" => Ran(126)

(* C5: without an accelerator no accelerator call is made, nothing is
   raised, and the routine runs the system-RAM phase and completes. *)
C5_NoAcceleratorCompletes ==
    (~cuda /\ Terminal) =>
        /\ \A c \in AcceleratorCalls : ~Called(c)
        /\ pc = "returned"
        /\ Ran(79) /\ Ran(151)

(* C6: every reported delta is final snapshot minus initial snapshot:
   accelerator allocated, system usage percentage points, system available
   bytes. *)
C6_DeltaIsFinalMinusInitial ==
    /\ pc = "gpu_return" /\ freed_allocated_gb # Unbound =>
           GbEq(freed_allocated_gb,
                GbSub(final_allocated_gb, initial_allocated_gb))
    /\ pc = "ram_return" =>
           /\ GbEq(memory_freed_percent_points,
                   GbSub(final_percent, initial_percent))
           /\ GbEq(available_change_gb,
                   GbSub(final_available_gb, initial_available_gb))

(* C7: on POSIX with aggressive = true, a failed sync or a failed cache-drop
   write is logged and aborts only that sub-step: the cache-drop write is
   still attempted, the final system snapshot is still taken and the routine
   completes normally. *)
C7_PosixFailureContained ==
    (osname = "posix" /\ aggressive /\ Terminal
       /\ warned \cap (SyncHandlers \cup TeeHandlers) # {}) =>
        /\ Ran(110)
        /\ Ran(151)
        /\ pc = "returned"

(* C8: as stated: every baseline snapshot (accelerator and system) comes
   before every reclaiming step, and every final snapshot after every
   reclaiming step. *)
C8_SnapshotsBracketReclaim ==
    \A i \in DOMAIN log, j \in DOMAIN log :
        /\ (log[i].line \in BaselineLines /\ log[j].call \in ReclaimCalls)
               => i < j
        /\ (log[i].call \in ReclaimCalls /\ log[j].line \in FinalLines)
               => i < j

(* C8, amended: the routine runs two phases, each with its own baseline and
   final snapshot.  The calls of an invocation are made in source order:
   availability check; accelerator baseline, gc, cache release, unload, gc,
   cache release, accelerator final; system baseline, gc, privilege check,
   sync, drop-caches write (or working-set trim), system final; an invocation
   that returns has made the snapshots and reclaiming steps its flag,
   accelerator and OS call for. *)
PhaseLines == {32, 38, 39, 46, 47, 54, 55, 56, 66, 67,
               79, 85, 92, 98, 110, 126, 131, 151}
C8_TwoPhaseOrder ==
    /\ \A i \in DOMAIN log :
          /\ log[i].call = "print" => i = 1
          /\ log[i].call # "print" => log[i].line \in PhaseLines
          /\ (i > 1 /\ log[i - 1].call # "print") =>
                 log[i - 1].line < log[i].line
    /\ pc = "returned" =>
          /\ Ran(32) /\ Ran(79) /\ Ran(85) /\ Ran(151)
          /\ cuda <=> Ran(38)
          /\ cuda <=> Ran(46) /\ Ran(47) /\ Ran(66)
          /\ (cuda /\ aggressive) <=> Ran(54)
          /\ (aggressive /\ osname = "posix") <=> Ran(98) /\ Ran(110)
          /\ (aggressive /\ osname = "nt") <=> Ran(126)

C8_Witness ==
    /\ pc = "returned"
    /\ cuda /\ aggressive /\ osname = "posix"
    /\ Ran(56) /\ Ran(67)
    /\ Len(log) >= 16

(* C9: with aggressive = true (and an accelerator whose cache can be
   emptied), unload_all_models is called exactly once, after the first gc and
   cache release, and gc and the cache release are repeated after the unload,
   also when the unload itself fails. *)
C9_UnloadThenEmptyAgain ==
    (aggressive /\ cuda /\ pc = "returned") =>
        /\ Cardinality(CallsOf("unload_all_models")) = 1
        /\ \A u \in CallsOf("unload_all_models") :
              /\ \E i \in LinesOf(46) : i < u
              /\ \E i \in LinesOf(47) : i < u
              /\ \E i \in CallsOf("gc.collect") : i > u
              /\ \E i \in CallsOf("empty_cache") : i > u

(* C10: with aggressive = true and no accelerator, unload_all_models is never
   called while the OS cache-clearing step is still performed; gc runs at
   least once in every invocation. *)
C10_UnloadGatedOnAccelerator ==
    /\ (aggressive /\ ~cuda /\ Terminal) =>
          /\ ~Called("unload_all_models")
          /\ osname = "posix" => Ran(98) /\ Ran(110)
          /\ osname = "nt" => Ran(126)
          /\ osname \notin {"posix", "nt"} => 145 \in warned
    /\ Terminal => Called("gc.collect")

====
